---- MODULE Spec2Model ----
(***************************************************************************)
(* Model of the gapstack transaction service: the request handlers of      *)
(* package api (CreateTransaction, GetTransaction, ListTransactions,       *)
(* UpdateTransaction, validateTransaction, isValidCurrency) and the MySQL   *)
(* gateway of package db (DBImpl) over the transactions table of            *)
(* db/init.sql.                                                             *)
(***************************************************************************)
EXTENDS Integers, Sequences, FiniteSets, TLC

VARIABLES store, candidate, outcome, query, listing, client, pool

vars == <<store, candidate, outcome, query, listing, client, pool>>

(***************************************************************************)
(* Go strings.  A string whose content matters (currency, sender,          *)
(* receiver) is a sequence of runes.  A rune is named by a TLA+ string: an  *)
(* ASCII character by itself, a non-ASCII character by its code point.      *)
(*   U+017F  LATIN SMALL LETTER LONG S      (upper case: S)                 *)
(*   U+0131  LATIN SMALL LETTER DOTLESS I   (upper case: I)                 *)
(*   U+00E9  LATIN SMALL LETTER E WITH ACUTE (upper case: U+00C9)           *)
(* Each of these takes two bytes in UTF-8.                                  *)
(***************************************************************************)
TwoByteRunes == {"U+017F", "U+0131", "U+00E9", "U+00C9"}

\* Number of bytes of the UTF-8 encoding of one rune.
Utf8Len(r) == IF r \in TwoByteRunes THEN 2 ELSE 1

\* Go's builtin len on a string: the number of BYTES, not of characters.
len(s) == Len(s) + Cardinality({i \in DOMAIN s : Utf8Len(s[i]) = 2})

\* utf8.RuneCountInString: the number of characters (used by the claims only).
RuneCount(s) == Len(s)

LowerLetters ==
    <<"a", "b", "c", "d", "e", "f", "g", "h", "i", "j", "k", "l", "m",
      "n", "o", "p", "q", "r", "s", "t", "u", "v", "w", "x", "y", "z">>

UpperLetters ==
    <<"A", "B", "C", "D", "E", "F", "G", "H", "I", "J", "K", "L", "M",
      "N", "O", "P", "Q", "R", "S", "T", "U", "V", "W", "X", "Y", "Z">>

\* The upper case of the runes that have one (unicode.ToUpper).
UpperCaseOf ==
    [r \in {LowerLetters[i] : i \in DOMAIN LowerLetters}
            \cup {"U+017F", "U+0131", "U+00E9"} |->
        IF r = "U+017F" THEN "S"
        ELSE IF r = "U+0131" THEN "I"
        ELSE IF r = "U+00E9" THEN "U+00C9"
        ELSE UpperLetters[CHOOSE i \in DOMAIN LowerLetters : LowerLetters[i] = r]]

\* unicode.ToUpper on one rune.
ToUpperRune(r) == IF r \in DOMAIN UpperCaseOf THEN UpperCaseOf[r] ELSE r

\* strings.ToUpper: maps every rune to its upper case.
ToUpper(s) == [i \in DOMAIN s |-> ToUpperRune(s[i])]

\* A letter of some alphabet (unicode.IsLetter), for the runes used here.
IsLetter(r) ==
    \/ \E i \in DOMAIN LowerLetters : LowerLetters[i] = r \/ UpperLetters[i] = r
    \/ r \in TwoByteRunes

\* The string made of n copies of the rune r.
Repeat(r, n) == [i \in 1..n |-> r]

(***************************************************************************)
(* Amounts.  models.Transaction.Amount is a float64 decoded from a JSON    *)
(* number.  The model keeps the decimal amounts with at most three         *)
(* fractional digits and magnitude below 2^31, on which float64 decoding   *)
(* is injective and order preserving (the spacing of float64 near 10^8 is  *)
(* 1.5e-8).  An amount is units + cents/100 + mills/1000 with cents in     *)
(* 0..99 and mills in 0..9; a negative amount has negative units.          *)
(***************************************************************************)
Dec(u, c, m) == [units |-> u, cents |-> c, mills |-> m]

\* Go's a < b on float64, for amounts of the grid.
FloatLT(a, b) ==
    \/ a.units < b.units
    \/ a.units = b.units /\ a.cents < b.cents
    \/ a.units = b.units /\ a.cents = b.cents /\ a.mills < b.mills

FloatLE(a, b) == a = b \/ FloatLT(a, b)

FloatGT(a, b) == FloatLT(b, a)

ZeroAmount == Dec(0, 0, 0)

\* The literal 99999999.99 of validateTransaction.
MaxAmount == Dec(99999999, 99, 0)

\* The length limit of sender and receiver in validateTransaction.
MaxPartyLen == 255

\* The length a currency code must have in isValidCurrency.
CurrencyLen == 3

(***************************************************************************)
(* models.Status and models.Transaction.                                   *)
(***************************************************************************)
StatusPending == "pending"
StatusCompleted == "completed"
StatusFailed == "failed"

\* time.Time: 0 is the zero time; every clock reading is positive.
ZeroTime == 0

Transaction(id, amount, currency, sender, receiver, status, createdAt) ==
    [ID |-> id, Amount |-> amount, Currency |-> currency, Sender |-> sender,
     Receiver |-> receiver, Status |-> status, CreatedAt |-> createdAt]

\* The zero value of models.Transaction (var transaction models.Transaction).
ZeroTransaction == Transaction("", ZeroAmount, <<>>, <<>>, <<>>, "", ZeroTime)

(***************************************************************************)
(* isValidCurrency and validateTransaction.                                *)
(***************************************************************************)
validCurrencies ==
    { <<"U", "S", "D">>, <<"E", "U", "R">>, <<"G", "B", "P">>,
      <<"J", "P", "Y">>, <<"C", "A", "D">>, <<"A", "U", "D">>,
      <<"C", "H", "F">>, <<"C", "N", "Y">>, <<"S", "E", "K">>,
      <<"N", "Z", "D">>, <<"M", "X", "N">>, <<"S", "G", "D">>,
      <<"H", "K", "D">>, <<"N", "O", "K">>, <<"T", "R", "Y">>,
      <<"R", "U", "B">>, <<"I", "N", "R">>, <<"B", "R", "L">>,
      <<"Z", "A", "R">>, <<"K", "R", "W">>, <<"K", "E", "S">> }

\* Mutant of isValidCurrency: the map is consulted without upper-casing.
isValidCurrencyNoUpper(currency) ==
    IF len(currency) # CurrencyLen THEN FALSE ELSE currency \in validCurrencies

isValidCurrency(currency) ==
    IF len(currency) # CurrencyLen
    THEN FALSE
    ELSE ToUpper(currency) \in validCurrencies

MsgAmountPositive == "amount must be greater than 0"
MsgAmountTooLarge == "amount must be less than 100,000,000"
MsgCurrencyRequired == "currency is required"
MsgCurrencyInvalid == "currency must be a valid 3-letter ISO code (e.g., USD, EUR, GBP)"
MsgSenderRequired == "sender is required"
MsgSenderTooLong == "sender must be 255 characters or less"
MsgReceiverRequired == "receiver is required"
MsgReceiverTooLong == "receiver must be 255 characters or less"
MsgSameParty == "sender and receiver must be different"

\* Mutant of validateTransaction: the upper amount bound is exclusive.
validateTransactionExclusiveMax(transaction) ==
    (IF FloatLE(transaction.Amount, ZeroAmount)
       THEN <<MsgAmountPositive>> ELSE <<>>)
    \o (IF ~FloatLT(transaction.Amount, MaxAmount)
       THEN <<MsgAmountTooLarge>> ELSE <<>>)
    \o (IF transaction.Currency = <<>> THEN <<MsgCurrencyRequired>>
        ELSE IF ~isValidCurrency(transaction.Currency)
        THEN <<MsgCurrencyInvalid>> ELSE <<>>)
    \o (IF transaction.Sender = <<>> THEN <<MsgSenderRequired>>
        ELSE IF len(transaction.Sender) > MaxPartyLen
        THEN <<MsgSenderTooLong>> ELSE <<>>)
    \o (IF transaction.Receiver = <<>> THEN <<MsgReceiverRequired>>
        ELSE IF len(transaction.Receiver) > MaxPartyLen
        THEN <<MsgReceiverTooLong>> ELSE <<>>)
    \o (IF transaction.Sender = transaction.Receiver
       THEN <<MsgSameParty>> ELSE <<>>)

\* The slice `errors` built by validateTransaction; the function returns nil
\* iff it is empty, and otherwise an error whose text joins its elements.
validateTransaction(transaction) ==
    (IF FloatLE(transaction.Amount, ZeroAmount)
       THEN <<MsgAmountPositive>> ELSE <<>>)
    \o (IF FloatGT(transaction.Amount, MaxAmount)
       THEN <<MsgAmountTooLarge>> ELSE <<>>)
    \o (IF transaction.Currency = <<>> THEN <<MsgCurrencyRequired>>
        ELSE IF ~isValidCurrency(transaction.Currency)
        THEN <<MsgCurrencyInvalid>> ELSE <<>>)
    \o (IF transaction.Sender = <<>> THEN <<MsgSenderRequired>>
        ELSE IF len(transaction.Sender) > MaxPartyLen
        THEN <<MsgSenderTooLong>> ELSE <<>>)
    \o (IF transaction.Receiver = <<>> THEN <<MsgReceiverRequired>>
        ELSE IF len(transaction.Receiver) > MaxPartyLen
        THEN <<MsgReceiverTooLong>> ELSE <<>>)
    \o (IF transaction.Sender = transaction.Receiver
       THEN <<MsgSameParty>> ELSE <<>>)

(***************************************************************************)
(* Go's int (64 bits on the platforms the service is built for).  A value  *)
(* is its two's complement representation: 8 bytes, least significant      *)
(* first.  Arithmetic wraps around, as Go's does.                           *)
(***************************************************************************)
IntBytes == 8

Byte == 256

\* The powers of 256 below 2^31.
Pow256 == <<1, 256, 65536, 16777216>>

\* The int of a small natural number n.
Int64Of(n) ==
    [i \in 1..IntBytes |-> IF i <= Len(Pow256) THEN (n \div Pow256[i]) % Byte ELSE 0]

Zero64 == Int64Of(0)

IsNeg64(a) == a[IntBytes] >= Byte \div 2

IsZero64(a) == \A i \in DOMAIN a : a[i] = 0

\* a + b + carry, byte by byte; the carry out of the last byte is dropped.
RECURSIVE AddLimbs(_, _, _)
AddLimbs(a, b, carry) ==
    IF a = <<>> THEN <<>>
    ELSE LET v == Head(a) + Head(b) + carry
         IN  <<v % Byte>> \o AddLimbs(Tail(a), Tail(b), v \div Byte)

\* -a.
Neg64(a) == AddLimbs([i \in DOMAIN a |-> Byte - 1 - a[i]], Zero64, 1)

\* a - b.
Sub64(a, b) == AddLimbs(a, Neg64(b), 0)

\* Byte i of a, and 0 beyond its length.
Limb(a, i) == IF i \in DOMAIN a THEN a[i] ELSE 0

\* The sum of a[i] * b[k + 1 - i] for i in from..k: column k of the product.
RECURSIVE ColumnSum(_, _, _, _)
ColumnSum(a, b, k, from) ==
    IF from > k THEN 0
    ELSE Limb(a, from) * Limb(b, k + 1 - from) + ColumnSum(a, b, k, from + 1)

\* Bytes k..n of the product of a and b (schoolbook multiplication).
RECURSIVE MulLimbs(_, _, _, _, _)
MulLimbs(a, b, k, n, carry) ==
    IF k > n THEN <<>>
    ELSE LET v == ColumnSum(a, b, k, 1) + carry
         IN  <<v % Byte>> \o MulLimbs(a, b, k + 1, n, v \div Byte)

\* a * b of Go: the low 64 bits of the product.
Mul64(a, b) == MulLimbs(a, b, 1, IntBytes, 0)

(***************************************************************************)
(* strconv.Atoi.  A string is a sequence of characters; the accepted       *)
(* syntax is an optional sign followed by one or more decimal digits, and  *)
(* a value outside the range of int is an error (strconv.ErrRange).        *)
(***************************************************************************)
DigitChars == <<"0", "1", "2", "3", "4", "5", "6", "7", "8", "9">>

IsDigit(c) == \E i \in DOMAIN DigitChars : DigitChars[i] = c

DigitValue(c) == (CHOOSE i \in DOMAIN DigitChars : DigitChars[i] = c) - 1

\* a * m + carry for a small m, byte by byte.
RECURSIVE MulAddSmall(_, _, _)
MulAddSmall(a, m, carry) ==
    IF a = <<>> THEN <<>>
    ELSE LET v == Head(a) * m + carry
         IN  <<v % Byte>> \o MulAddSmall(Tail(a), m, v \div Byte)

\* The magnitude of a digit string, on one byte more than an int has (enough
\* for 21 digits).
RECURSIVE ParseDigits(_, _)
ParseDigits(digits, acc) ==
    IF digits = <<>> THEN acc
    ELSE ParseDigits(Tail(digits), MulAddSmall(acc, 10, DigitValue(Head(digits))))

Atoi(s) ==
    LET signed == s # <<>> /\ s[1] \in {"+", "-"}
        neg == s # <<>> /\ s[1] = "-"
        digits == IF signed THEN Tail(s) ELSE s
    IN  IF digits = <<>> \/ \E i \in DOMAIN digits : ~IsDigit(digits[i])
        THEN [err |-> TRUE, n |-> Zero64]
        ELSE LET mag == ParseDigits(digits, Zero64 \o <<0>>)
                 low == SubSeq(mag, 1, IntBytes)
                 inRange ==
                     /\ mag[IntBytes + 1] = 0
                     /\ \/ mag[IntBytes] < Byte \div 2
                        \/ neg /\ low = [i \in 1..IntBytes |->
                                            IF i = IntBytes THEN Byte \div 2 ELSE 0]
             IN  IF ~inRange THEN [err |-> TRUE, n |-> Zero64]
                 ELSE [err |-> FALSE, n |-> IF neg THEN Neg64(low) ELSE low]

(***************************************************************************)
(* The transactions table (db/init.sql) and the gateway DBImpl.            *)
(* The table is a set of rows; a row has the shape of models.Transaction.  *)
(* Record identifiers are opaque strings: only equality and emptiness of   *)
(* an identifier matter, so an identifier is a TLA+ string.                *)
(***************************************************************************)
MaxIds == 2

\* The identifiers uuid.NewString() can return.
IdOf(n) == "txn-" \o ToString(n)

GeneratedIds == {IdOf(n) : n \in 1..MaxIds}

\* Readings of a clock (time.Now() of the handler, CURRENT_TIMESTAMP of the
\* store): positive, and not tied to one another.
Times == {1, 2}

StatusEnum == {StatusPending, StatusCompleted, StatusFailed}

\* Column widths of the table, in characters.
VarcharCurrency == 10
VarcharParty == 255

\* amount DECIMAL(10, 2): the value is rounded to the nearest value with two
\* fractional digits (a third digit of 5 rounds upwards).
RoundToCents(a) ==
    IF a.mills < 5 THEN Dec(a.units, a.cents, 0)
    ELSE IF a.cents = 99 THEN Dec(a.units + 1, 0, 0)
    ELSE Dec(a.units, a.cents + 1, 0)

\* The largest and the smallest value of a DECIMAL(10, 2) column.
DecimalMax == Dec(99999999, 99, 0)

DecimalMin == Dec(0 - 100000000, 1, 0)

\* The values the columns of the table can hold (strict SQL mode).
ColumnsFit(t) ==
    /\ RuneCount(t.Currency) <= VarcharCurrency
    /\ RuneCount(t.Sender) <= VarcharParty
    /\ RuneCount(t.Receiver) <= VarcharParty
    /\ t.Status \in StatusEnum
    /\ FloatLE(RoundToCents(t.Amount), DecimalMax)
    /\ FloatLE(DecimalMin, RoundToCents(t.Amount))

\* The row an INSERT of t writes: created_at is not among the inserted
\* columns, so it takes its default, the clock of the store.
InsertedRow(t, storeNow) ==
    Transaction(t.ID, RoundToCents(t.Amount), t.Currency, t.Sender,
                t.Receiver, t.Status, storeNow)

\* Mutant of DBCreateTransaction: REPLACE INTO, which deletes the row that
\* holds the primary key before it inserts.
DBCreateTransactionReplaces(t, rows, storeNow, fault) ==
    IF fault \/ ~ColumnsFit(t)
    THEN [err |-> TRUE, rows |-> rows]
    ELSE [err |-> FALSE,
          rows |-> {r \in rows : r.ID # t.ID} \cup {InsertedRow(t, storeNow)}]

\* Mutant of DBCreateTransaction: the table also has a unique key on
\* (amount, currency, sender, receiver).
DBCreateTransactionUniqueBusiness(t, rows, storeNow, fault) ==
    IF \/ fault \/ ~ColumnsFit(t) \/ (\E r \in rows : r.ID = t.ID)
       \/ \E r \in rows :
             /\ r.Amount = RoundToCents(t.Amount) /\ r.Currency = t.Currency
             /\ r.Sender = t.Sender /\ r.Receiver = t.Receiver
    THEN [err |-> TRUE, rows |-> rows]
    ELSE [err |-> FALSE, rows |-> rows \cup {InsertedRow(t, storeNow)}]

\* Mutant of DBCreateTransaction: the table has no primary key.
DBCreateTransactionNoKey(t, rows, storeNow, fault) ==
    IF fault \/ ~ColumnsFit(t)
    THEN [err |-> TRUE, rows |-> rows]
    ELSE [err |-> FALSE, rows |-> rows \cup {InsertedRow(t, storeNow)}]

\* DBImpl.CreateTransaction: one INSERT statement.  fault is a failure of
\* the connection; a duplicate primary key or a value that does not fit its
\* column fails the statement; a failed statement changes nothing.
DBCreateTransaction(t, rows, storeNow, fault) ==
    IF fault \/ ~ColumnsFit(t) \/ (\E r \in rows : r.ID = t.ID)
    THEN [err |-> TRUE, rows |-> rows]
    ELSE [err |-> FALSE, rows |-> rows \cup {InsertedRow(t, storeNow)}]

\* Mutant of DBUpdateTransaction: the UPDATE also resets created_at.
DBUpdateTransactionResetsCreatedAt(id, status, rows, fault) ==
    IF fault \/ status \notin StatusEnum
    THEN [err |-> TRUE, rows |-> rows]
    ELSE [err |-> FALSE,
          rows |-> {IF r.ID = id
                    THEN [r EXCEPT !.Status = status, !.CreatedAt = ZeroTime]
                    ELSE r : r \in rows}]

\* Mutant of DBUpdateTransaction: the UPDATE has no WHERE clause.
DBUpdateTransactionNoWhere(id, status, rows, fault) ==
    IF fault \/ status \notin StatusEnum
    THEN [err |-> TRUE, rows |-> rows]
    ELSE [err |-> FALSE, rows |-> {[r EXCEPT !.Status = status] : r \in rows}]

\* DBImpl.UpdateTransaction: UPDATE transactions SET status = ? WHERE id = ?.
\* The number of rows affected is not looked at.
DBUpdateTransaction(id, status, rows, fault) ==
    IF fault \/ status \notin StatusEnum
    THEN [err |-> TRUE, rows |-> rows]
    ELSE [err |-> FALSE,
          rows |-> {IF r.ID = id THEN [r EXCEPT !.Status = status] ELSE r :
                    r \in rows}]

\* A nil *models.Transaction.
NilTransaction == [nil |-> TRUE]

\* Mutant of DBGetTransaction: sql.ErrNoRows is returned like any other error.
DBGetTransactionErrNoRows(id, rows, fault) ==
    IF fault \/ ~(\E r \in rows : r.ID = id)
    THEN [err |-> TRUE, transaction |-> NilTransaction]
    ELSE [err |-> FALSE, transaction |-> CHOOSE r \in rows : r.ID = id]

\* DBImpl.GetTransaction: SELECT ... WHERE id = ?, scanned into a
\* models.Transaction.  No row is (nil, nil); any other failure is an error.
DBGetTransaction(id, rows, fault) ==
    IF fault
    THEN [err |-> TRUE, transaction |-> NilTransaction]
    ELSE IF \E r \in rows : r.ID = id
    THEN [err |-> FALSE, transaction |-> CHOOSE r \in rows : r.ID = id]
    ELSE [err |-> FALSE, transaction |-> NilTransaction]

\* The place of an identifier in the order of the id column (ORDER BY id).
IdRank(id) == CHOOSE n \in 1..MaxIds : IdOf(n) = id

IdLess(a, b) == IdRank(a) < IdRank(b)

\* The rows in the order ORDER BY id gives them.
RECURSIVE OrderById(_)
OrderById(rows) ==
    IF rows = {} THEN <<>>
    ELSE LET first == CHOOSE r \in rows : \A x \in rows : ~IdLess(x.ID, r.ID)
         IN  <<first>> \o OrderById(rows \ {first})

\* A Go slice of transactions: nil, or a sequence of elements.
NilSlice == [isNil |-> TRUE, elems |-> <<>>]
Slice(elems) == [isNil |-> FALSE, elems |-> elems]

\* More rows than the table ever holds.
ManyRows == 65536

\* A non-negative int as a number of rows: itself, or ManyRows if larger.
RowCount(a) ==
    IF \A i \in 3..IntBytes : a[i] = 0 THEN a[1] + a[2] * Byte ELSE ManyRows

Min(a, b) == IF a <= b THEN a ELSE b

\* What can go wrong while the rows of a result are read: nothing, the Scan
\* of row number 1 or 2, or the iteration itself (rows.Err()).
NoScanFault == 0
RowsErr == 0 - 1
ScanFaults == {RowsErr, NoScanFault, 1, 2}

\* Mutant of ScanRows: the loop stops at a row that fails to scan and the
\* rows read so far are returned without an error.
ScanRowsPartial(selected, scan) ==
    IF scan >= 1 /\ scan <= Len(selected)
    THEN [err |-> FALSE,
          transactions |-> IF scan = 1 THEN NilSlice
                           ELSE Slice(SubSeq(selected, 1, scan - 1))]
    ELSE IF scan = RowsErr
    THEN [err |-> TRUE, transactions |-> NilSlice]
    ELSE [err |-> FALSE,
          transactions |-> IF selected = <<>> THEN NilSlice ELSE Slice(selected)]

\* The loop over rows.Next(): each selected row is scanned and appended; the
\* first Scan that fails, or an error of the iteration, returns (nil, err).
ScanRows(selected, scan) ==
    IF (scan >= 1 /\ scan <= Len(selected)) \/ scan = RowsErr
    THEN [err |-> TRUE, transactions |-> NilSlice]
    ELSE [err |-> FALSE,
          transactions |-> IF selected = <<>> THEN NilSlice ELSE Slice(selected)]

\* Mutant of DBGetAllTransactions: ORDER BY created_at, id.
DBGetAllTransactionsByCreatedAt(limit, offset, rows, fault, scan) ==
    IF fault \/ IsNeg64(limit) \/ IsNeg64(offset)
    THEN [err |-> TRUE, transactions |-> NilSlice]
    ELSE LET early == {r \in rows : \A x \in rows : r.CreatedAt <= x.CreatedAt}
             ordered == OrderById(early) \o OrderById(rows \ early)
             from == RowCount(offset)
             to == Min(from + RowCount(limit), Len(ordered))
             selected == SubSeq(ordered, from + 1, to)
         IN  ScanRows(selected, scan)

\* DBImpl.GetAllTransactions: SELECT ... ORDER BY id LIMIT ? OFFSET ?, the
\* rows appended one by one to a slice that starts nil.  A negative LIMIT or
\* OFFSET fails the statement.  fault is a failure of the query, scan a
\* failure while the rows are read.
DBGetAllTransactions(limit, offset, rows, fault, scan) ==
    IF fault \/ IsNeg64(limit) \/ IsNeg64(offset)
    THEN [err |-> TRUE, transactions |-> NilSlice]
    ELSE LET ordered == OrderById(rows)
             from == RowCount(offset)
             to == Min(from + RowCount(limit), Len(ordered))
             selected == SubSeq(ordered, from + 1, to)
         IN  ScanRows(selected, scan)

(***************************************************************************)
(* Request bodies.  A JSON object is modelled by what json.Decoder does     *)
(* with it: the body is well-formed JSON or not, and each key is absent     *)
(* (or null), holds a value of the Go field's type, or holds a value of     *)
(* another JSON type (a number for a string field, a string that is no      *)
(* RFC 3339 time for created_at), which makes Decode fail.                  *)
(***************************************************************************)
Value(v) == [kind |-> "value", val |-> v]
Absent(zero) == [kind |-> "absent", val |-> zero]
Mistyped(zero) == [kind |-> "mistyped", val |-> zero]

\* What Decode leaves in a field that held `zero` before.
DecodeField(f, zero) == IF f.kind = "value" THEN f.val ELSE zero

CreateKeys == {"amount", "currency", "sender", "receiver", "id", "status", "created_at"}

\* json.NewDecoder(r.Body).Decode(&transaction) returns no error.
Decodes(p) == p.wellFormed /\ \A k \in CreateKeys : p[k].kind # "mistyped"

\* The struct after a successful Decode into the zero models.Transaction.
Decode(p) ==
    Transaction(DecodeField(p.id, ""),
                DecodeField(p.amount, ZeroAmount),
                DecodeField(p.currency, <<>>),
                DecodeField(p.sender, <<>>),
                DecodeField(p.receiver, <<>>),
                DecodeField(p.status, ""),
                DecodeField(p.created_at, ZeroTime))

(***************************************************************************)
(* HTTP responses: status code and body.  A body is an error text          *)
(* (http.Error), an encoded transaction, or empty.                          *)
(***************************************************************************)
StatusBadRequest == 400
StatusInternalServerError == 500
\* The status the write-up assigns to a record that is not found.
StatusNotFound == 404
StatusOK == 200
StatusCreated == 201
StatusNoContent == 204

ErrorResponse(code, text) ==
    [code |-> code, kind |-> "error", text |-> text, tx |-> ZeroTransaction]

JsonResponse(code, t) ==
    [code |-> code, kind |-> "json", text |-> <<>>, tx |-> t]

EmptyResponse(code) ==
    [code |-> code, kind |-> "empty", text |-> <<>>, tx |-> ZeroTransaction]

\* The JSON value null.
JsonNull == [null |-> TRUE]

\* json.Encoder.Encode of a *models.Transaction: a nil pointer is encoded as
\* null, any other as the object of the record it points to.
EncodeTransaction(t) == IF t = NilTransaction THEN JsonNull ELSE t

GetCall(id) == [op |-> "GetTransaction", id |-> id]
\* json.Encoder.Encode of a []models.Transaction: a nil slice is encoded as
\* null, any other as an array.
EncodeSlice(sl) == IF sl.isNil THEN JsonNull ELSE [array |-> sl.elems]

\* The envelope of a list response.
ListResponse(code, page, n, transactions) ==
    [code |-> code, kind |-> "list", page |-> page, page_size |-> n,
     transactions |-> EncodeSlice(transactions)]

ListCall(limit, offset) ==
    [op |-> "GetAllTransactions", limit |-> limit, offset |-> offset]

CreateCall(t) == [op |-> "CreateTransaction", tx |-> t]
UpdateCall(id, status) == [op |-> "UpdateTransaction", id |-> id, status |-> status]

\* Mutant of AssignServerFields: a status sent by the client is kept.
AssignServerFieldsKeepsStatus(transaction, id, now) ==
    [transaction EXCEPT
        !.Status = IF transaction.Status = "" THEN StatusPending
                   ELSE transaction.Status,
        !.ID = id, !.CreatedAt = now]

\* The server-controlled fields the handler assigns after validation.
AssignServerFields(transaction, id, now) ==
    [transaction EXCEPT !.Status = StatusPending, !.ID = id, !.CreatedAt = now]

\* Mutant of HandleCreate: a failed insert is tried a second time.
HandleCreateRetries(p, id, now, rows, storeNow, fault) ==
    IF ~Decodes(p)
    THEN [resp |-> ErrorResponse(StatusBadRequest, <<"invalid request body">>),
          rows |-> rows, calls |-> <<>>]
    ELSE LET transaction == Decode(p)
             errors == validateTransaction(transaction)
         IN  IF errors # <<>>
             THEN [resp |-> ErrorResponse(StatusBadRequest,
                                          <<"validation failed">> \o errors),
                   rows |-> rows, calls |-> <<>>]
             ELSE LET t == AssignServerFields(transaction, id, now)
                      r == DBCreateTransaction(t, rows, storeNow, fault)
                      again == DBCreateTransaction(t, rows, storeNow, FALSE)
                  IN  IF ~r.err
                      THEN [resp |-> JsonResponse(StatusCreated, t),
                            rows |-> r.rows, calls |-> <<CreateCall(t)>>]
                      ELSE IF again.err
                      THEN [resp |-> ErrorResponse(StatusInternalServerError,
                                        <<"error creating transaction">>),
                            rows |-> again.rows,
                            calls |-> <<CreateCall(t), CreateCall(t)>>]
                      ELSE [resp |-> JsonResponse(StatusCreated, t),
                            rows |-> again.rows,
                            calls |-> <<CreateCall(t), CreateCall(t)>>]

\* Mutant of HandleCreate: the decoded id and status are kept when the
\* client sent them.
HandleCreateTrustsClient(p, id, now, rows, storeNow, fault) ==
    IF ~Decodes(p)
    THEN [resp |-> ErrorResponse(StatusBadRequest, <<"invalid request body">>),
          rows |-> rows, calls |-> <<>>]
    ELSE LET transaction == Decode(p)
             errors == validateTransaction(transaction)
         IN  IF errors # <<>>
             THEN [resp |-> ErrorResponse(StatusBadRequest,
                                          <<"validation failed">> \o errors),
                   rows |-> rows, calls |-> <<>>]
             ELSE LET a == AssignServerFields(transaction, id, now)
                      t == [a EXCEPT
                              !.Status = IF transaction.Status = ""
                                         THEN a.Status ELSE transaction.Status,
                              !.ID = IF transaction.ID = ""
                                     THEN a.ID ELSE transaction.ID]
                      r == DBCreateTransaction(t, rows, storeNow, fault)
                  IN  IF r.err
                      THEN [resp |-> ErrorResponse(StatusInternalServerError,
                                        <<"error creating transaction">>),
                            rows |-> r.rows, calls |-> <<CreateCall(t)>>]
                      ELSE [resp |-> JsonResponse(StatusCreated, t),
                            rows |-> r.rows, calls |-> <<CreateCall(t)>>]

\* Mutant of HandleCreate: validation errors are logged, not returned.
HandleCreateNoValidation(p, id, now, rows, storeNow, fault) ==
    IF ~Decodes(p)
    THEN [resp |-> ErrorResponse(StatusBadRequest, <<"invalid request body">>),
          rows |-> rows, calls |-> <<>>]
    ELSE LET t == AssignServerFields(Decode(p), id, now)
             r == DBCreateTransaction(t, rows, storeNow, fault)
         IN  IF r.err
             THEN [resp |-> ErrorResponse(StatusInternalServerError,
                               <<"error creating transaction">>),
                   rows |-> r.rows, calls |-> <<CreateCall(t)>>]
             ELSE [resp |-> JsonResponse(StatusCreated, t),
                   rows |-> r.rows, calls |-> <<CreateCall(t)>>]

\* Handler.CreateTransaction on body p, with id the value of uuid.NewString(),
\* now the value of time.Now(), rows the table, storeNow the clock of the
\* store and fault a connection failure: the response, the table afterwards
\* and the gateway calls made.
HandleCreate(p, id, now, rows, storeNow, fault) ==
    IF ~Decodes(p)
    THEN [resp |-> ErrorResponse(StatusBadRequest, <<"invalid request body">>),
          rows |-> rows, calls |-> <<>>]
    ELSE LET transaction == Decode(p)
             errors == validateTransaction(transaction)
         IN  IF errors # <<>>
             THEN [resp |-> ErrorResponse(StatusBadRequest,
                                          <<"validation failed">> \o errors),
                   rows |-> rows, calls |-> <<>>]
             ELSE LET t == AssignServerFields(transaction, id, now)
                      r == DBCreateTransaction(t, rows, storeNow, fault)
                  IN  IF r.err
                      THEN [resp |-> ErrorResponse(StatusInternalServerError,
                                        <<"error creating transaction">>),
                            rows |-> r.rows, calls |-> <<CreateCall(t)>>]
                      ELSE [resp |-> JsonResponse(StatusCreated, t),
                            rows |-> r.rows, calls |-> <<CreateCall(t)>>]

(***************************************************************************)
(* Handler.GetTransaction.                                                  *)
(***************************************************************************)
\* Mutant of HandleGet: the path id is not looked at.
HandleGetNoIdCheck(id, rows, fault) ==
    LET r == DBGetTransaction(id, rows, fault)
    IN  IF r.err
        THEN [resp |-> ErrorResponse(StatusInternalServerError,
                          <<"error getting transaction">>),
              rows |-> rows, calls |-> <<GetCall(id)>>]
        ELSE [resp |-> JsonResponse(StatusOK, EncodeTransaction(r.transaction)),
              rows |-> rows, calls |-> <<GetCall(id)>>]

\* Handler.GetTransaction on path id `id`.
HandleGet(id, rows, fault) ==
    IF id = ""
    THEN [resp |-> ErrorResponse(StatusBadRequest, <<"missing transaction id">>),
          rows |-> rows, calls |-> <<>>]
    ELSE LET r == DBGetTransaction(id, rows, fault)
         IN  IF r.err
             THEN [resp |-> ErrorResponse(StatusInternalServerError,
                               <<"error getting transaction">>),
                   rows |-> rows, calls |-> <<GetCall(id)>>]
             ELSE [resp |-> JsonResponse(StatusOK, EncodeTransaction(r.transaction)),
                   rows |-> rows, calls |-> <<GetCall(id)>>]

(***************************************************************************)
(* Handler.ListTransactions.  A query parameter that is missing reads as   *)
(* the empty string.                                                        *)
(***************************************************************************)
defaultPageSize == Int64Of(10)

defaultPage == Int64Of(1)

\* Mutant of ResolveList: the offset is page * pageSize.
ResolveListFromPage(pageParam, pageSizeParam) ==
    LET p == Atoi(pageParam)
        page == IF p.err \/ IsNeg64(p.n) \/ IsZero64(p.n) THEN defaultPage ELSE p.n
        ps == Atoi(pageSizeParam)
        pageSize == IF ps.err \/ IsNeg64(ps.n) \/ IsZero64(ps.n)
                    THEN defaultPageSize ELSE ps.n
    IN  [page |-> page, pageSize |-> pageSize,
         offset |-> Mul64(page, pageSize)]

\* The page, the page size and the offset the handler works with.
ResolveList(pageParam, pageSizeParam) ==
    LET p == Atoi(pageParam)
        page == IF p.err \/ IsNeg64(p.n) \/ IsZero64(p.n) THEN defaultPage ELSE p.n
        ps == Atoi(pageSizeParam)
        pageSize == IF ps.err \/ IsNeg64(ps.n) \/ IsZero64(ps.n)
                    THEN defaultPageSize ELSE ps.n
    IN  [page |-> page, pageSize |-> pageSize,
         offset |-> Mul64(Sub64(page, Int64Of(1)), pageSize)]

\* Values of the query parameters page and page_size.
TwoTo62Plus1 ==
    <<"4", "6", "1", "1", "6", "8", "6", "0", "1", "8",
      "4", "2", "7", "3", "8", "7", "9", "0", "5">>

ListPages == { <<>>, <<"0">>, <<"1">>, <<"2">>, <<"3">>, <<"+", "2">>, TwoTo62Plus1 }

ListPageSizes == { <<>>, <<"x">>, <<"1">>, <<"2">>, <<"4">> }

MaxInt64Text ==
    <<"9", "2", "2", "3", "3", "7", "2", "0", "3", "6",
      "8", "5", "4", "7", "7", "5", "8", "0", "7">>

TwoTo63Text ==
    <<"9", "2", "2", "3", "3", "7", "2", "0", "3", "6",
      "8", "5", "4", "7", "7", "5", "8", "0", "8">>

PageParams ==
    ListPages \cup { <<"a", "b", "c">>, <<"-", "1">>, <<"1", ".", "5">>,
                     <<"4">>, <<"7">>, MaxInt64Text, TwoTo63Text }

PageSizeParams ==
    ListPageSizes \cup { <<"0">>, <<"-", "5">>, <<"1", "0">>, <<"2", "5">>,
                         <<"1", "e", "2">>, MaxInt64Text }

\* ResolveList on each of these query strings.
ListPlans ==
    [pageParam \in PageParams, pageSizeParam \in PageSizeParams |->
        ResolveList(pageParam, pageSizeParam)]

\* Mutant of HandleList: the envelope reports the requested page size.
HandleListRequestedSize(pageParam, pageSizeParam, rows, fault, scan) ==
    LET plan == ListPlans[pageParam, pageSizeParam]
        r == DBGetAllTransactions(plan.pageSize, plan.offset, rows, fault, scan)
    IN  IF r.err
        THEN [resp |-> ErrorResponse(StatusInternalServerError,
                          <<"error getting transactions">>),
              rows |-> rows, calls |-> <<ListCall(plan.pageSize, plan.offset)>>]
        ELSE [resp |-> ListResponse(StatusOK, plan.page,
                                    RowCount(plan.pageSize), r.transactions),
              rows |-> rows, calls |-> <<ListCall(plan.pageSize, plan.offset)>>]

\* Handler.ListTransactions on the values of the query parameters page and
\* page_size: the response, the table afterwards and the gateway calls made.
HandleList(pageParam, pageSizeParam, rows, fault, scan) ==
    LET plan == ListPlans[pageParam, pageSizeParam]
        r == DBGetAllTransactions(plan.pageSize, plan.offset, rows, fault, scan)
    IN  IF r.err
        THEN [resp |-> ErrorResponse(StatusInternalServerError,
                          <<"error getting transactions">>),
              rows |-> rows, calls |-> <<ListCall(plan.pageSize, plan.offset)>>]
        ELSE [resp |-> ListResponse(StatusOK, plan.page,
                                    Len(r.transactions.elems), r.transactions),
              rows |-> rows, calls |-> <<ListCall(plan.pageSize, plan.offset)>>]

(***************************************************************************)
(* Handler.UpdateTransaction.  The body is decoded into updateRequest,     *)
(* whose only field is status.                                              *)
(***************************************************************************)
UpdateDecodes(b) == b.wellFormed /\ b.status.kind # "mistyped"

\* Mutant of HandleUpdate: a record that has left pending is not updated.
HandleUpdateOnlyFromPending(id, b, rows, fault) ==
    IF id = ""
    THEN [resp |-> ErrorResponse(StatusBadRequest, <<"missing transaction id">>),
          rows |-> rows, calls |-> <<>>]
    ELSE IF ~UpdateDecodes(b)
    THEN [resp |-> ErrorResponse(StatusBadRequest, <<"invalid request body">>),
          rows |-> rows, calls |-> <<>>]
    ELSE LET status == DecodeField(b.status, "")
         IN  IF \/ (status # StatusFailed) /\ (status # StatusCompleted)
                \/ \E r \in rows : r.ID = id /\ r.Status # StatusPending
             THEN [resp |-> ErrorResponse(StatusBadRequest, <<"invalid request body">>),
                   rows |-> rows, calls |-> <<>>]
             ELSE LET r == DBUpdateTransaction(id, status, rows, fault)
                  IN  IF r.err
                      THEN [resp |-> ErrorResponse(StatusInternalServerError,
                                        <<"error updating transaction">>),
                            rows |-> r.rows, calls |-> <<UpdateCall(id, status)>>]
                      ELSE [resp |-> EmptyResponse(StatusNoContent),
                            rows |-> r.rows, calls |-> <<UpdateCall(id, status)>>]

\* Mutant of HandleUpdate: every status of the enumeration is let through.
HandleUpdateAnyStatus(id, b, rows, fault) ==
    IF id = ""
    THEN [resp |-> ErrorResponse(StatusBadRequest, <<"missing transaction id">>),
          rows |-> rows, calls |-> <<>>]
    ELSE IF ~UpdateDecodes(b)
    THEN [resp |-> ErrorResponse(StatusBadRequest, <<"invalid request body">>),
          rows |-> rows, calls |-> <<>>]
    ELSE LET status == DecodeField(b.status, "")
         IN  IF status \notin StatusEnum
             THEN [resp |-> ErrorResponse(StatusBadRequest, <<"invalid request body">>),
                   rows |-> rows, calls |-> <<>>]
             ELSE LET r == DBUpdateTransaction(id, status, rows, fault)
                  IN  IF r.err
                      THEN [resp |-> ErrorResponse(StatusInternalServerError,
                                        <<"error updating transaction">>),
                            rows |-> r.rows, calls |-> <<UpdateCall(id, status)>>]
                      ELSE [resp |-> EmptyResponse(StatusNoContent),
                            rows |-> r.rows, calls |-> <<UpdateCall(id, status)>>]

\* Handler.UpdateTransaction on path id `id` and body b.
HandleUpdate(id, b, rows, fault) ==
    IF id = ""
    THEN [resp |-> ErrorResponse(StatusBadRequest, <<"missing transaction id">>),
          rows |-> rows, calls |-> <<>>]
    ELSE IF ~UpdateDecodes(b)
    THEN [resp |-> ErrorResponse(StatusBadRequest, <<"invalid request body">>),
          rows |-> rows, calls |-> <<>>]
    ELSE LET status == DecodeField(b.status, "")
         IN  IF (status # StatusFailed) /\ (status # StatusCompleted)
             THEN [resp |-> ErrorResponse(StatusBadRequest, <<"invalid request body">>),
                   rows |-> rows, calls |-> <<>>]
             ELSE LET r == DBUpdateTransaction(id, status, rows, fault)
                  IN  IF r.err
                      THEN [resp |-> ErrorResponse(StatusInternalServerError,
                                        <<"error updating transaction">>),
                            rows |-> r.rows, calls |-> <<UpdateCall(id, status)>>]
                      ELSE [resp |-> EmptyResponse(StatusNoContent),
                            rows |-> r.rows, calls |-> <<UpdateCall(id, status)>>]

(***************************************************************************)
(* Requests the clients send.                                               *)
(***************************************************************************)
USD == <<"U", "S", "D">>
usd == <<"u", "s", "d">>
PartyA == <<"a">>
PartyB == <<"b">>

\* The business fields of a create body: amount, currency, sender, receiver.
Business(amount, currency, sender, receiver) ==
    [amount |-> amount, currency |-> currency, sender |-> sender,
     receiver |-> receiver]

BusinessInputs ==
    { \* valid
      Business(Value(Dec(99999999, 99, 0)), Value(USD), Value(PartyA), Value(PartyB)),
      \* valid, with more than two fractional digits and a lower-case code
      Business(Value(Dec(0, 0, 4)), Value(usd), Value(PartyB), Value(PartyA)),
      \* three violated rules: amount, currency, sender = receiver
      Business(Value(Dec(0 - 101, 50, 0)), Value(<<"X", "X">>), Value(PartyA), Value(PartyA)),
      \* currency, sender and receiver missing
      Business(Value(Dec(100, 50, 0)), Absent(<<>>), Absent(<<>>), Absent(<<>>)),
      \* amount too large
      Business(Value(Dec(100000000, 0, 0)), Value(USD), Value(PartyA), Value(PartyB)) }

\* The keys id, status and created_at of a create body.
ServerFields(id, status, createdAt) ==
    [id |-> id, status |-> status, created_at |-> createdAt]

NoServerFields == ServerFields(Absent(""), Absent(""), Absent(ZeroTime))

ServerFieldInputs ==
    { NoServerFields,
      ServerFields(Value(IdOf(1)), Value(StatusCompleted), Value(1)),
      ServerFields(Absent(""), Absent(""), Mistyped(ZeroTime)) }

CreateBody(wellFormed, b, f) ==
    [wellFormed |-> wellFormed,
     amount |-> b.amount, currency |-> b.currency, sender |-> b.sender,
     receiver |-> b.receiver,
     id |-> f.id, status |-> f.status, created_at |-> f.created_at]

MalformedCreateBody ==
    CreateBody(FALSE,
               Business(Absent(ZeroAmount), Absent(<<>>), Absent(<<>>), Absent(<<>>)),
               NoServerFields)

CreatePayloads ==
    {CreateBody(TRUE, b, f) : b \in BusinessInputs, f \in ServerFieldInputs}
    \cup {MalformedCreateBody}

\* The same body without the keys id, status and created_at.
StripServerFields(p) ==
    [p EXCEPT !.id = Absent(""), !.status = Absent(""),
              !.created_at = Absent(ZeroTime)]

UpdateBody(wellFormed, status) == [wellFormed |-> wellFormed, status |-> status]

UpdateBodies ==
    { UpdateBody(FALSE, Absent("")),
      UpdateBody(TRUE, Absent("")),
      UpdateBody(TRUE, Mistyped("")),
      UpdateBody(TRUE, Value(StatusPending)),
      UpdateBody(TRUE, Value(StatusCompleted)),
      UpdateBody(TRUE, Value(StatusFailed)),
      UpdateBody(TRUE, Value("Completed")) }

\* The {id} of the request path; the handler also copes with an empty one.
PathIds == {""} \cup GeneratedIds

(***************************************************************************)
(* The service.  The state is the transactions table; one step is one      *)
(* request handled from start to end.  The handlers share nothing but the  *)
(* table, and every gateway operation is one SQL statement, so requests    *)
(* handled concurrently act on the table one statement at a time.          *)
(***************************************************************************)
NotRun == [ran |-> FALSE, errors |-> <<>>]

NoQuery == [page |-> <<>>, page_size |-> <<>>]

NotResolved == [ran |-> FALSE, plan |-> ResolveList(<<>>, <<>>)]

\* A client that reads the list page by page: the page_size it keeps to,
\* the page it asks for next, the ids the table held at its first request,
\* the ids it has received so far, and whether it has received an empty
\* page.
NoClient ==
    [pageSize |-> <<>>, next |-> 1, before |-> {}, received |-> <<>>,
     done |-> FALSE]

\* The most connections the pool opens (DB_MAX_OPEN_CONNS), kept small.
MaxOpenConns == 1

\* The longest wait that is counted, in ticks of a clock.
MaxWait == 3

\* The handler invocations that run at the same time: more than the pool
\* has connections.
Invocations == 1..(MaxOpenConns + 2)

\* Where each invocation is with its gateway call (idle: not in one; waiting
\* for a connection; holding one while its statement runs; done or failed:
\* the call has returned nil or an error), and how long it has waited for a
\* connection.
NoInvocations == [i \in Invocations |-> [at |-> "idle", waited |-> 0]]

Init ==
    /\ store = {}
    /\ candidate = ZeroTransaction
    /\ outcome = NotRun
    /\ query = NoQuery
    /\ listing = NotResolved
    /\ client = NoClient
    /\ pool = NoInvocations

\* What a create request consists of: the body, and what the handler draws
\* while it runs (uuid.NewString(), time.Now(), the clock of the store, the
\* fate of the connection).
CreateRequests ==
    [p : CreatePayloads, id : GeneratedIds, now : Times, storeNow : Times,
     fault : BOOLEAN]

CreateOn(q, rows) == HandleCreate(q.p, q.id, q.now, rows, q.storeNow, q.fault)

\* POST /transactions.
CreateTransaction ==
    \E q \in CreateRequests :
        /\ store' = CreateOn(q, store).rows
        /\ UNCHANGED <<candidate, outcome, query, listing, client, pool>>

UpdateRequests == [id : PathIds, b : UpdateBodies, fault : BOOLEAN]

UpdateOn(q, rows) == HandleUpdate(q.id, q.b, rows, q.fault)

\* PUT /transactions/{id}.
UpdateTransaction ==
    \E q \in UpdateRequests :
        /\ store' = UpdateOn(q, store).rows
        /\ UNCHANGED <<candidate, outcome, query, listing, client, pool>>

GetRequests == [id : PathIds, fault : BOOLEAN]

GetOn(q, rows) == HandleGet(q.id, rows, q.fault)

\* GET /transactions/{id}.
GetTransaction ==
    \E q \in GetRequests :
        /\ store' = GetOn(q, store).rows
        /\ UNCHANGED <<candidate, outcome, query, listing, client, pool>>

ListRequests ==
    [page : ListPages, page_size : ListPageSizes, fault : BOOLEAN,
     scan : ScanFaults]

ListOn(q, rows) == HandleList(q.page, q.page_size, rows, q.fault, q.scan)

\* GET /transactions?page=&page_size=.
ListTransactions ==
    \E q \in ListRequests :
        /\ store' = ListOn(q, store).rows
        /\ UNCHANGED <<candidate, outcome, query, listing, client, pool>>

Next == CreateTransaction \/ UpdateTransaction \/ GetTransaction \/ ListTransactions

Spec == Init /\ [][Next]_vars

(***************************************************************************)
(* A client reading the list page by page while other clients create       *)
(* records.  Every request is one handler invocation, and an invocation     *)
(* touches the table in one statement, so the requests interleave as whole  *)
(* steps.                                                                   *)
(***************************************************************************)
\* The records an encoded transactions field holds.
RecordsOf(transactions) ==
    IF transactions = JsonNull THEN <<>> ELSE transactions.array

\* The pages a client asks for one after the other.
PageTexts == << <<"1">>, <<"2">>, <<"3">>, <<"4">> >>

ClientPageSizes == { <<"1">>, <<"2">> }

\* The create requests of the other clients: accepted bodies, any generated
\* id, no failure of the store.
OtherCreates ==
    {q \in CreateRequests :
        /\ q.p = CreateBody(TRUE,
                            Business(Value(Dec(99999999, 99, 0)), Value(USD),
                                     Value(PartyA), Value(PartyB)),
                            NoServerFields)
        /\ q.now = 1
        /\ ~q.fault}

InitPaging ==
    /\ store = {}
    /\ candidate = ZeroTransaction
    /\ outcome = NotRun
    /\ query = NoQuery
    /\ listing = NotResolved
    /\ client \in {[NoClient EXCEPT !.pageSize = s] : s \in ClientPageSizes}
    /\ pool = NoInvocations

\* POST /transactions by another client.
OtherClientCreates ==
    \E q \in OtherCreates :
        /\ store' = CreateOn(q, store).rows
        /\ UNCHANGED <<candidate, outcome, query, listing, client, pool>>

\* GET /transactions?page=next&page_size=pageSize by the paging client, which
\* stops at the first empty page.
ClientRequestsPage ==
    /\ ~client.done
    /\ client.next <= Len(PageTexts)
    /\ LET h == HandleList(PageTexts[client.next], client.pageSize, store,
                           FALSE, NoScanFault)
           page == RecordsOf(h.resp.transactions)
       IN  client' = [client EXCEPT
                        !.before = IF client.next = 1
                                   THEN {r.ID : r \in h.rows} ELSE @,
                        !.received = @ \o [i \in DOMAIN page |-> page[i].ID],
                        !.done = (page = <<>>),
                        !.next = IF page = <<>> THEN @ ELSE @ + 1]
    /\ store' = store
    /\ UNCHANGED <<candidate, outcome, query, listing, pool>>

NextPaging == OtherClientCreates \/ ClientRequestsPage

SpecPaging == InitPaging /\ [][NextPaging]_vars

(***************************************************************************)
(* The connection pool under concurrent invocations.  The gateway calls     *)
(* db.DB.Exec, db.DB.Query and db.DB.QueryRow, which carry no context: a    *)
(* call takes a free connection or waits for one, runs its statement and    *)
(* gives the connection back.                                               *)
(***************************************************************************)
InUse(p) == {i \in Invocations : p[i].at = "holding"}

WaitingFor(p) == {i \in Invocations : p[i].at = "waiting"}

InitPool ==
    /\ store = {}
    /\ candidate = ZeroTransaction
    /\ outcome = NotRun
    /\ query = NoQuery
    /\ listing = NotResolved
    /\ client = NoClient
    /\ pool = NoInvocations

\* Mutant of Call: a call that finds every connection in use returns an
\* error.
CallFailsWhenExhausted(i) ==
    /\ pool[i].at = "idle"
    /\ pool' = [pool EXCEPT ![i].at =
                    IF Cardinality(InUse(pool)) < MaxOpenConns
                    THEN "holding" ELSE "failed"]
    /\ UNCHANGED <<store, candidate, outcome, query, listing, client>>

\* Invocation i enters its gateway call: it takes a connection if fewer than
\* MaxOpenConns are in use, and waits otherwise.
Call(i) ==
    /\ pool[i].at = "idle"
    /\ pool' = [pool EXCEPT ![i].at =
                    IF Cardinality(InUse(pool)) < MaxOpenConns
                    THEN "holding" ELSE "waiting"]
    /\ UNCHANGED <<store, candidate, outcome, query, listing, client>>

\* The statement of invocation i ends, well or with an error, and its
\* connection goes to one of the waiting calls, if there is any.
Finish(i) ==
    /\ pool[i].at = "holding"
    /\ \E end \in {"done", "failed"} :
          IF WaitingFor(pool) = {}
          THEN pool' = [pool EXCEPT ![i].at = end]
          ELSE \E j \in WaitingFor(pool) :
                  pool' = [pool EXCEPT ![i].at = end, ![j].at = "holding"]
    /\ UNCHANGED <<store, candidate, outcome, query, listing, client>>

\* The handler of invocation i answers (500 after an error) and ends; the
\* next request starts a new invocation.
Answer(i) ==
    /\ pool[i].at \in {"done", "failed"}
    /\ pool' = [pool EXCEPT ![i] = [at |-> "idle", waited |-> 0]]
    /\ UNCHANGED <<store, candidate, outcome, query, listing, client>>

\* Time passes for the waiting calls.  Nothing in the call limits it: no
\* context with a deadline, and the timeout of the connection string is that
\* of dialling.
Tick ==
    /\ \E i \in WaitingFor(pool) : pool[i].waited < MaxWait
    /\ pool' = [i \in Invocations |->
                  IF pool[i].at = "waiting" /\ pool[i].waited < MaxWait
                  THEN [pool[i] EXCEPT !.waited = @ + 1] ELSE pool[i]]
    /\ UNCHANGED <<store, candidate, outcome, query, listing, client>>

NextPool ==
    \/ \E i \in Invocations : Call(i)
    \/ \E i \in Invocations : Finish(i)
    \/ \E i \in Invocations : Answer(i)
    \/ Tick

SpecPool == InitPool /\ [][NextPool]_vars

(***************************************************************************)
(* validateTransaction applied to one candidate, for the claims about the  *)
(* validation rules alone.                                                  *)
(***************************************************************************)
AmountInputs ==
    { Dec(0 - 101, 50, 0), Dec(0 - 1, 99, 9), ZeroAmount, Dec(0, 0, 1),
      Dec(0, 0, 4), Dec(100, 50, 0), Dec(99999999, 99, 0),
      Dec(99999999, 99, 1), Dec(100000000, 0, 0) }

CurrencyInputs ==
    { <<>>, USD, usd, <<"U", "s", "D">>, <<"K", "E", "S">>, <<"k", "e", "s">>,
      <<"U", "S">>, <<"U", "S", "D", "D">>, <<"X", "X", "X">>,
      <<"U", "$", "D">>,
      <<"U+017F", "E", "K">>, <<"U+0131", "N", "R">>, <<"U+00E9", "U", "R">>,
      <<"U+017F", "S">> }

PartyInputs ==
    { <<>>, PartyA, PartyB,
      Repeat("a", MaxPartyLen), Repeat("a", MaxPartyLen + 1),
      Repeat("U+00E9", 127), Repeat("U+00E9", 128),
      Repeat("U+00E9", MaxPartyLen), Repeat("U+00E9", MaxPartyLen + 1) }

Candidates ==
    { Transaction("", a, c, s, r, "", ZeroTime) :
        a \in AmountInputs, c \in CurrencyInputs, s \in PartyInputs,
        r \in PartyInputs }

InitValidate ==
    /\ store = {}
    /\ candidate \in Candidates
    /\ outcome = NotRun
    /\ query = NoQuery
    /\ listing = NotResolved
    /\ client = NoClient
    /\ pool = NoInvocations

Validate ==
    /\ ~outcome.ran
    /\ outcome' = [ran |-> TRUE, errors |-> validateTransaction(candidate)]
    /\ UNCHANGED <<store, candidate, query, listing, client, pool>>

NextValidate == Validate

SpecValidate == InitValidate /\ [][NextValidate]_vars

(***************************************************************************)
(* The parameter handling of Handler.ListTransactions applied to one query *)
(* string, for the claims about page, page size and offset alone.           *)
(***************************************************************************)
InitList ==
    /\ store = {}
    /\ candidate = ZeroTransaction
    /\ outcome = NotRun
    /\ query \in [page : PageParams, page_size : PageSizeParams]
    /\ listing = NotResolved
    /\ client = NoClient
    /\ pool = NoInvocations

Resolve ==
    /\ ~listing.ran
    /\ listing' = [ran |-> TRUE, plan |-> ResolveList(query.page, query.page_size)]
    /\ UNCHANGED <<store, candidate, outcome, query, client, pool>>

NextList == Resolve

SpecList == InitList /\ [][NextList]_vars

(***************************************************************************)
(* The validation rules as the specification words them: lengths are       *)
(* counted in characters, a currency code is three letters.                 *)
(***************************************************************************)
InSeq(x, s) == \E i \in DOMAIN s : s[i] = x

\* 0 < a
AmountPositive(a) == a.units >= 0 /\ (a.units > 0 \/ a.cents > 0 \/ a.mills > 0)

\* a <= 99,999,999.99
AmountWithinMax(a) ==
    \/ a.units < 99999999
    \/ a.units = 99999999 /\ (a.cents < 99 \/ (a.cents = 99 /\ a.mills = 0))

\* c is three ASCII letters that spell a code of the allow-list in some case.
SpellsAllowedCode(c) ==
    /\ Len(c) = 3
    /\ \E code \in validCurrencies :
          \A i \in 1..3 :
             \/ c[i] = code[i]
             \/ \E k \in DOMAIN UpperLetters :
                   UpperLetters[k] = code[i] /\ LowerLetters[k] = c[i]

\* c is three letters whose upper-cased form is in the allow-list.
ThreeLettersInList(c) ==
    /\ RuneCount(c) = 3
    /\ \A i \in DOMAIN c : IsLetter(c[i])
    /\ ToUpper(c) \in validCurrencies

PartyRuleHolds(s) == s # <<>> /\ RuneCount(s) <= 255

\* The messages by which validateTransaction names each rule.
RuleMessages ==
    << {MsgAmountPositive}, {MsgAmountTooLarge},
       {MsgCurrencyRequired, MsgCurrencyInvalid},
       {MsgSenderRequired, MsgSenderTooLong},
       {MsgReceiverRequired, MsgReceiverTooLong},
       {MsgSameParty} >>

\* Rule n (1..6) holds of the candidate t.
RuleHolds(n, t) ==
    CASE n = 1 -> AmountPositive(t.Amount)
      [] n = 2 -> AmountWithinMax(t.Amount)
      [] n = 3 -> t.Currency # <<>> /\ SpellsAllowedCode(t.Currency)
      [] n = 4 -> PartyRuleHolds(t.Sender)
      [] n = 5 -> PartyRuleHolds(t.Receiver)
      [] n = 6 -> t.Sender # t.Receiver

\* The error names rule n.
RuleNamed(n, errors) == \E m \in RuleMessages[n] : InSeq(m, errors)

AnyRuleViolated(t) == \E n \in 1..6 : ~RuleHolds(n, t)

(***************************************************************************)
(* Claims about the create handler.                                         *)
(***************************************************************************)
\* The gateway accepts an insert under the id the request draws.
InsertWouldSucceed(q, rows) == ~q.fault /\ \A r \in rows : r.ID # q.id

\* C1: a Create request whose payload decodes, passes validation and whose
\* gateway create succeeds is answered 201 with a record that has the
\* generated non-empty id, status pending, a non-zero created_at and the
\* amount, currency, sender and receiver of the input (currency in the case
\* it was sent in); the record handed to the gateway is that same record.
C1_CreateSuccessReturnsPopulatedRecord ==
    \A q \in CreateRequests :
        LET h == CreateOn(q, store)
        IN  (/\ Decodes(q.p)
             /\ validateTransaction(Decode(q.p)) = <<>>
             /\ InsertWouldSucceed(q, store))
            => /\ h.resp.code = StatusCreated
               /\ h.resp.kind = "json"
               /\ h.resp.tx.ID = q.id
               /\ h.resp.tx.ID # ""
               /\ h.resp.tx.Status = StatusPending
               /\ h.resp.tx.CreatedAt = q.now
               /\ h.resp.tx.CreatedAt # ZeroTime
               /\ h.resp.tx.Amount = q.p.amount.val
               /\ h.resp.tx.Currency = q.p.currency.val
               /\ h.resp.tx.Sender = q.p.sender.val
               /\ h.resp.tx.Receiver = q.p.receiver.val
               /\ h.calls = <<CreateCall(h.resp.tx)>>

\* A lower-case currency and a client-supplied id, on a table that already
\* holds a record, created with success.
C1_Witness ==
    /\ store # {}
    /\ \E q \in CreateRequests :
          /\ q.p.currency.val = usd
          /\ q.p.id.kind = "value"
          /\ InsertWouldSucceed(q, store)
          /\ CreateOn(q, store).resp.code = StatusCreated

\* The same request without the keys id, status and created_at.
Stripped(q) == [q EXCEPT !.p = StripServerFields(q.p)]

C4_RejectedCreateTouchesNothing ==
    \A q \in CreateRequests :
        LET h == CreateOn(q, store)
        IN  (~Decodes(q.p) \/ AnyRuleViolated(Decode(q.p)))
            => /\ h.resp.code = StatusBadRequest
               /\ h.calls = <<>>
               /\ h.rows = store

\* A request violating three rules arrives at a table that holds a record.
C4_Witness ==
    /\ store # {}
    /\ \E q \in CreateRequests :
          /\ Decodes(q.p)
          /\ Cardinality({n \in 1..6 : ~RuleHolds(n, Decode(q.p))}) = 3
          /\ CreateOn(q, store).resp.code = StatusBadRequest

(***************************************************************************)
(* Claims about the records of the table.                                   *)
(***************************************************************************)
\* C7: every record has sender # receiver and a status of the enumeration,
\* and no two records share an id.
C7_StoreInvariants ==
    /\ \A r \in store : r.Sender # r.Receiver /\ r.Status \in StatusEnum
    /\ \A r1, r2 \in store : r1.ID = r2.ID => r1 = r2

\* Two records, one completed and one failed.
C7_Witness ==
    \E r1, r2 \in store :
        r1.ID # r2.ID /\ r1.Status = StatusCompleted /\ r2.Status = StatusFailed

\* C8: the amount of every record is strictly positive and at most
\* 99,999,999.99.
C8_StoredAmountInRange ==
    \A r \in store : AmountPositive(r.Amount) /\ AmountWithinMax(r.Amount)

(***************************************************************************)
(* Claims about the update handler.                                         *)
(***************************************************************************)
\* The body decodes and asks for completed or failed.
AsksCompletedOrFailed(b) ==
    /\ b.wellFormed
    /\ b.status.kind = "value"
    /\ b.status.val \in {"completed", "failed"}

\* C9: an Update request reaches the gateway iff its id is non-empty, its
\* body decodes and its target is completed or failed; then the gateway is
\* called once with that id and target; every other request is answered
\* 400 and leaves the table as it was.
C9_UpdateReachesGatewayIff ==
    \A q \in UpdateRequests :
        LET h == UpdateOn(q, store)
            ok == q.id # "" /\ AsksCompletedOrFailed(q.b)
        IN  /\ (h.calls # <<>>) <=> ok
            /\ ok => h.calls = <<UpdateCall(q.id, q.b.status.val)>>
            /\ ~ok => h.resp.code = StatusBadRequest /\ h.rows = store

\* An update to pending for a record that exists and is completed: rejected.
C9_Witness ==
    \E r \in store, q \in UpdateRequests :
        /\ r.Status = StatusCompleted
        /\ q.id = r.ID
        /\ q.b.status.kind = "value"
        /\ q.b.status.val = StatusPending
        /\ UpdateOn(q, store).resp.code = StatusBadRequest

\* C10: an accepted Update whose id matches no record, the connection being
\* up, gets no error from the gateway, is answered 204 with an empty body
\* and leaves every record as it was; an update that matches a record gets
\* the same response.
C10_UpdateMissIsSilentNoOp ==
    \A q \in UpdateRequests :
        LET h == UpdateOn(q, store)
            matches == \E r \in store : r.ID = q.id
        IN  (q.id # "" /\ AsksCompletedOrFailed(q.b) /\ ~q.fault)
            => /\ ~DBUpdateTransaction(q.id, q.b.status.val, store, q.fault).err
               /\ h.resp = EmptyResponse(StatusNoContent)
               /\ ~matches => h.rows = store

\* An accepted update for an id that matches none of the records of a
\* table that holds a pending record.
C10_Witness ==
    \E r \in store, q \in UpdateRequests :
        /\ r.Status = StatusPending
        /\ q.id # ""
        /\ AsksCompletedOrFailed(q.b)
        /\ ~q.fault
        /\ \A x \in store : x.ID # q.id
        /\ UpdateOn(q, store).resp.code = StatusNoContent

\* C11: a successful updateStatus(id, newStatus) of the gateway changes only
\* the status of the record whose id matches: that record keeps its id,
\* amount, currency, sender, receiver and created_at, every other record is
\* unchanged, and the number of records is unchanged.
C11_UpdateChangesOnlyStatus ==
    \A id \in GeneratedIds, status \in StatusEnum :
        LET r == DBUpdateTransaction(id, status, store, FALSE)
        IN  ~r.err =>
              /\ Cardinality(r.rows) = Cardinality(store)
              /\ \A row \in store :
                    IF row.ID = id
                    THEN [row EXCEPT !.Status = status] \in r.rows
                    ELSE row \in r.rows

\* A table of two records, one of which an update has moved out of pending.
C11_Witness ==
    /\ Cardinality(store) >= 2
    /\ \E row \in store : row.Status # StatusPending
    /\ \E row \in store : row.Status = StatusPending

\* The table with every record in status s.
AllIn(rows, s) == {[r EXCEPT !.Status = s] : r \in rows}

\* C18: every record starts in pending; no Update request is accepted or
\* rejected on the basis of the record's current status, so that a record
\* can go from any status to completed and to failed; and after an Update
\* that matched a record its status is the requested target.
C18_NoCurrentStatusCheck ==
    /\ \A q \in CreateRequests :
          LET h == CreateOn(q, store)
          IN  h.resp.code = StatusCreated =>
                \A r \in h.rows \ store : r.Status = StatusPending
    /\ \A q \in UpdateRequests :
          LET h == UpdateOn(q, store)
          IN  /\ \A s \in StatusEnum :
                    LET k == UpdateOn(q, AllIn(store, s))
                    IN  k.resp = h.resp /\ k.calls = h.calls
              /\ h.resp.code = StatusNoContent =>
                    \A r \in h.rows : r.ID = q.id => r.Status = q.b.status.val

\* A completed record that an Update turns into failed, and a failed record
\* that an Update turns into completed.
C18_Witness ==
    /\ \E r \in store, q \in UpdateRequests :
          /\ r.Status = StatusCompleted /\ q.id = r.ID
          /\ [r EXCEPT !.Status = StatusFailed] \in UpdateOn(q, store).rows
    /\ \E r \in store, q \in UpdateRequests :
          /\ r.Status = StatusFailed /\ q.id = r.ID
          /\ [r EXCEPT !.Status = StatusCompleted] \in UpdateOn(q, store).rows

(***************************************************************************)
(* Claims about the get handler.                                            *)
(***************************************************************************)
\* C12: a get by an id that matches no record is answered 200 with the
\* payload null and never 500: the gateway reports "not found" without an
\* error and is called once; a get by an id that matches a record is
\* answered 200 with that record.
C12_GetMissIsNullNotError ==
    \A q \in GetRequests :
        (q.id # "" /\ ~q.fault) =>
            LET h == GetOn(q, store)
                g == DBGetTransaction(q.id, store, q.fault)
            IN  /\ ~g.err
                /\ h.resp.code = StatusOK
                /\ h.calls = <<GetCall(q.id)>>
                /\ IF \E row \in store : row.ID = q.id
                   THEN h.resp.tx \in store /\ h.resp.tx.ID = q.id
                   ELSE g.transaction = NilTransaction /\ h.resp.tx = JsonNull

\* A table in which one generated id matches a record and another does not.
C12_Witness ==
    /\ \E id \in GeneratedIds : \E row \in store : row.ID = id
    /\ \E id \in GeneratedIds : \A row \in store : row.ID # id

\* C13: after a successful create, a get with the returned id (and no update
\* in between) returns a record whose id, amount, currency, sender, receiver
\* and status equal those of the create response, and whose created_at is
\* the value the store assigned at insert.
C13_GetReturnsWhatCreateReturned ==
    \A q \in CreateRequests :
        LET h == CreateOn(q, store)
        IN  h.resp.code = StatusCreated =>
              LET g == HandleGet(h.resp.tx.ID, h.rows, FALSE).resp
              IN  /\ g.code = StatusOK
                  /\ g.tx # JsonNull
                  /\ g.tx.ID = h.resp.tx.ID
                  /\ g.tx.Amount = h.resp.tx.Amount
                  /\ g.tx.Currency = h.resp.tx.Currency
                  /\ g.tx.Sender = h.resp.tx.Sender
                  /\ g.tx.Receiver = h.resp.tx.Receiver
                  /\ g.tx.Status = h.resp.tx.Status
                  /\ g.tx.CreatedAt = q.storeNow

(***************************************************************************)
(* Claims about the parameter handling of the list handler (SpecList).      *)
(***************************************************************************)
\* Parameter texts that are missing, not a number, or a number below 1.
FallbackTexts ==
    { <<>>, <<"a", "b", "c">>, <<"x">>, <<"1", ".", "5">>, <<"1", "e", "2">>,
      <<"0">>, <<"-", "1">>, <<"-", "5">> }

\* The integer each other parameter text denotes, where an int can hold it.
Denoted ==
    (<<"1">> :> Int64Of(1)) @@ (<<"2">> :> Int64Of(2)) @@ (<<"3">> :> Int64Of(3))
    @@ (<<"4">> :> Int64Of(4)) @@ (<<"7">> :> Int64Of(7))
    @@ (<<"+", "2">> :> Int64Of(2))
    @@ (<<"1", "0">> :> Int64Of(10)) @@ (<<"2", "5">> :> Int64Of(25))
    @@ (TwoTo62Plus1 :> <<1, 0, 0, 0, 0, 0, 0, 64>>)
    @@ (MaxInt64Text :> <<255, 255, 255, 255, 255, 255, 255, 127>>)

\* The value a parameter is to resolve to, given its default.
ResolvedTo(text, default) ==
    IF text \in FallbackTexts THEN Int64Of(default) ELSE Denoted[text]

\* The product of two non-negative ints as a mathematical integer: 16 bytes.
Product(a, b) == MulLimbs(a, b, 1, 2 * IntBytes, 0)

\* A non-negative int as a mathematical integer on 16 bytes.
Widened(a) == a \o Zero64

\* C14: page and page_size are resolved independently, each falling back to
\* its default (1 and 10) when missing, non-numeric or below 1, and the
\* gateway is called exactly as list(page_size, (page - 1) * page_size) with
\* the resolved values.
C14_ListCallsGatewayWithResolvedValues ==
    (/\ listing.ran
     /\ query.page \in FallbackTexts \cup DOMAIN Denoted
     /\ query.page_size \in FallbackTexts \cup DOMAIN Denoted) =>
        LET page == ResolvedTo(query.page, 1)
            pageSize == ResolvedTo(query.page_size, 10)
            calls == HandleList(query.page, query.page_size, store, FALSE,
                               NoScanFault).calls
        IN  /\ listing.plan.page = page
            /\ listing.plan.pageSize = pageSize
            /\ Len(calls) = 1
            /\ calls[1].op = "GetAllTransactions"
            /\ calls[1].limit = pageSize
            /\ ~IsNeg64(calls[1].offset)
            /\ Widened(calls[1].offset) = Product(Sub64(page, Int64Of(1)), pageSize)

\* C27: for every page >= 1 and page_size >= 1 the handler accepts, the
\* offset is non-negative and equals the mathematical product
\* (page - 1) * page_size: the int multiplication never wraps around.
C27_OffsetNeverWraps ==
    (/\ listing.ran
     /\ query.page \in DOMAIN Denoted
     /\ query.page_size \in DOMAIN Denoted) =>
        /\ ~IsNeg64(listing.plan.offset)
        /\ Widened(listing.plan.offset)
              = Product(Sub64(Denoted[query.page], Int64Of(1)),
                        Denoted[query.page_size])

(***************************************************************************)
(* Claims about the list handler and the gateway's list.                    *)
(***************************************************************************)
\* The list requests whose page and page_size denote what they resolve to
\* and whose offset is an int.
PlainListRequests ==
    {q \in ListRequests :
        /\ ~q.fault
        /\ q.scan = NoScanFault
        /\ q.page \in (FallbackTexts \cup DOMAIN Denoted) \ {TwoTo62Plus1}
        /\ q.page_size \in FallbackTexts \cup DOMAIN Denoted}

\* The offset of a plain list request, as a number of rows.
OffsetOf(q) ==
    (RowCount(ResolvedTo(q.page, 1)) - 1) * RowCount(ResolvedTo(q.page_size, 10))

\* C15: in every successful list response, page is the resolved page
\* number, page_size is the actual number of records in transactions (not
\* the requested page size), and that number never exceeds the resolved
\* requested page size.
C15_EnvelopeReportsActualCount ==
    \A q \in ListRequests :
        LET h == ListOn(q, store)
        IN  h.resp.code = StatusOK =>
              /\ h.resp.page = ResolvedTo(q.page, 1)
              /\ h.resp.page_size = Len(RecordsOf(h.resp.transactions))
              /\ h.resp.page_size <= RowCount(ResolvedTo(q.page_size, 10))

\* A table with more records than a page of size 1 and fewer than a page of
\* size 4.
C15_Witness ==
    /\ Cardinality(store) >= 2
    /\ \E q \in ListRequests :
          /\ q.page_size = <<"1">>
          /\ ListOn(q, store).resp.code = StatusOK
          /\ ListOn(q, store).resp.page_size = 1

\* C16: whenever the selected range holds no record (empty store, or offset
\* beyond the end), list answers 200 with page_size 0 and transactions an
\* empty array, not null and not an error.
C16_EmptyRangeIsEmptyArray ==
    \A q \in PlainListRequests :
        OffsetOf(q) >= Cardinality(store) =>
            LET h == ListOn(q, store)
            IN  /\ h.resp.code = StatusOK
                /\ h.resp.page_size = 0
                /\ h.resp.transactions = [array |-> <<>>]

\* C17: list(limit, offset) of the gateway returns exactly the records at
\* positions offset + 1 .. min(offset + limit, N) of the N records sorted
\* by id ascending, in that order, whatever the order of insertion and the
\* values of created_at.
C17_ListIsSliceOfIdOrder ==
    \A limit \in 0..(MaxIds + 1), offset \in 0..(MaxIds + 1) :
        LET r == DBGetAllTransactions(Int64Of(limit), Int64Of(offset), store,
                                      FALSE, NoScanFault)
            e == r.transactions.elems
            N == Cardinality(store)
        IN  /\ ~r.err
            /\ Len(e) = (IF N - offset < 0 THEN 0 ELSE Min(limit, N - offset))
            /\ \A i \in DOMAIN e :
                  /\ e[i] \in store
                  /\ Cardinality({x \in store : IdLess(x.ID, e[i].ID)})
                        = offset + i - 1

\* The record with the greater id was inserted first.
C17_Witness ==
    \E a \in store, b \in store :
        /\ IdLess(a.ID, b.ID)
        /\ b.CreatedAt < a.CreatedAt

\* The records on page i of the table `rows` under the page size text s.
PageOf(i, s, rows) ==
    RecordsOf(HandleList(PageTexts[i], s, rows, FALSE, NoScanFault).resp.transactions)

ServerErrorWithoutRecord(resp) ==
    /\ resp.code >= 500 /\ resp.code < 600
    /\ resp.kind = "error"
    /\ resp.tx = ZeroTransaction

\* C19: in create, get, list and update, when the gateway call reports a
\* failure the handler answers with a 500-class failure that carries no
\* record, the gateway operation was invoked exactly once for the request
\* (no retry), and a failed create or update leaves the store unchanged.
C19_GatewayFailureIs500WithoutRetry ==
    /\ \A q \in CreateRequests :
          LET h == CreateOn(q, store)
          IN  (/\ h.calls # <<>>
               /\ DBCreateTransaction(h.calls[1].tx, store, q.storeNow, q.fault).err)
              => /\ ServerErrorWithoutRecord(h.resp)
                 /\ Len(h.calls) = 1
                 /\ h.rows = store
    /\ \A q \in UpdateRequests :
          LET h == UpdateOn(q, store)
          IN  (/\ h.calls # <<>>
               /\ DBUpdateTransaction(h.calls[1].id, h.calls[1].status,
                                      store, q.fault).err)
              => /\ ServerErrorWithoutRecord(h.resp)
                 /\ Len(h.calls) = 1
                 /\ h.rows = store
    /\ \A q \in GetRequests :
          LET h == GetOn(q, store)
          IN  (/\ h.calls # <<>>
               /\ DBGetTransaction(h.calls[1].id, store, q.fault).err)
              => /\ ServerErrorWithoutRecord(h.resp)
                 /\ Len(h.calls) = 1
                 /\ h.rows = store
    /\ \A q \in ListRequests :
          LET h == ListOn(q, store)
          IN  (/\ h.calls # <<>>
               /\ DBGetAllTransactions(h.calls[1].limit, h.calls[1].offset,
                                       store, q.fault, q.scan).err)
              => /\ ServerErrorWithoutRecord(h.resp)
                 /\ Len(h.calls) = 1
                 /\ h.rows = store

\* A table with a record, on which a create with that record's id fails on
\* the primary key and a get and an update of that record fail on the
\* connection.
C19_Witness ==
    \E r \in store :
        /\ \E q \in CreateRequests :
              /\ q.id = r.ID /\ ~q.fault
              /\ CreateOn(q, store).resp.code = StatusInternalServerError
        /\ \E q \in UpdateRequests :
              /\ q.id = r.ID /\ q.fault
              /\ UpdateOn(q, store).resp.code = StatusInternalServerError
        /\ \E q \in GetRequests :
              /\ q.id = r.ID /\ q.fault
              /\ GetOn(q, store).resp.code = StatusInternalServerError
        /\ \E q \in ListRequests :
              /\ q.fault
              /\ ListOn(q, store).resp.code = StatusInternalServerError

\* The amount, currency, sender and receiver of a create body.
BusinessOf(p) == <<p.wellFormed, p.amount, p.currency, p.sender, p.receiver>>

\* The create requests that succeed on the table: the connection holds and
\* the generated id is fresh, as the ids of uuid.NewString() are.
SucceedingCreates(rows) ==
    {q \in CreateRequests :
        /\ ~q.fault
        /\ \A r \in rows : r.ID # q.id
        /\ CreateOn(q, rows).resp.code = StatusCreated}

\* C20: two Create requests with identical amount, currency, sender and
\* receiver, handled concurrently, both succeed and leave two distinct
\* records with two distinct generated ids; neither is deduplicated,
\* rejected, or overwrites the other.  The handlers meet only in the table,
\* at their one INSERT, so the interleavings are the two orders of the
\* INSERTs; both orders are covered.
C20_IdenticalCreatesBothStored ==
    \A q1 \in SucceedingCreates(store), q2 \in SucceedingCreates(store) :
        (q1.id # q2.id /\ BusinessOf(q1.p) = BusinessOf(q2.p)) =>
            LET h1 == CreateOn(q1, store)
                h2 == CreateOn(q2, h1.rows)
            IN  /\ h2.resp.code = StatusCreated
                /\ h1.resp.tx.ID # h2.resp.tx.ID
                /\ h1.rows \subseteq h2.rows
                /\ store \subseteq h1.rows
                /\ Cardinality(h2.rows) = Cardinality(store) + 2
                /\ \E r \in h2.rows : r.ID = h1.resp.tx.ID
                /\ \E r \in h2.rows : r.ID = h2.resp.tx.ID

\* Two records with the same amount, currency, sender and receiver.
C20_Witness ==
    \E a \in store, b \in store :
        /\ a.ID # b.ID
        /\ a.Amount = b.Amount /\ a.Currency = b.Currency
        /\ a.Sender = b.Sender /\ a.Receiver = b.Receiver

\* The rows a list request selects when nothing fails.
SelectedBy(q) ==
    LET plan == ListPlans[q.page, q.page_size]
    IN  DBGetAllTransactions(plan.pageSize, plan.offset, store, FALSE,
                             NoScanFault).transactions.elems

\* Reading the rows of the request fails: at one of the selected rows, or
\* at the end of the iteration.
ReadingFails(q) ==
    /\ ~q.fault
    /\ ~IsNeg64(ListPlans[q.page, q.page_size].offset)
    /\ \/ q.scan = RowsErr
       \/ q.scan \in 1..Len(SelectedBy(q))

\* C22: the gateway's list never returns partial results: when the scan of
\* any row fails, or the iteration ends with an error, the operation returns
\* an error and a nil sequence, even when earlier rows were scanned, and the
\* handler answers 500 with no records.
C22_ListNeverReturnsPartialResults ==
    \A q \in ListRequests :
        ReadingFails(q) =>
            LET plan == ListPlans[q.page, q.page_size]
                g == DBGetAllTransactions(plan.pageSize, plan.offset, store,
                                          q.fault, q.scan)
                h == ListOn(q, store)
            IN  /\ g.err
                /\ g.transactions = NilSlice
                /\ ServerErrorWithoutRecord(h.resp)
                /\ h.resp.code = StatusInternalServerError

\* A list request that selects two rows, the scan of the second failing.
C22_Witness ==
    \E q \in ListRequests :
        /\ ReadingFails(q)
        /\ q.scan = 2
        /\ Len(SelectedBy(q)) >= 2

C26_MissingRecordIs404 ==
    \A q \in GetRequests :
        (q.id # "" /\ ~q.fault /\ \A r \in store : r.ID # q.id)
        => GetOn(q, store).resp.code = StatusNotFound

\* The record r, whatever its status.
SameButStatus(r, k) == k = [r EXCEPT !.Status = k.Status]

\* C21: no request removes or rewrites a record: a record in the store stays
\* there with its id, amount, currency, sender, receiver and created_at;
\* only Update requests change its status; Get and List requests leave the
\* whole store unchanged.
C21_RecordsAreNeverRemovedOrRewritten ==
    /\ \A q \in CreateRequests : store \subseteq CreateOn(q, store).rows
    /\ \A q \in UpdateRequests :
          LET after == UpdateOn(q, store).rows
          IN  /\ \A r \in store : \E k \in after : SameButStatus(r, k)
              /\ Cardinality(after) = Cardinality(store)
    /\ \A q \in GetRequests : GetOn(q, store).rows = store
    /\ \A q \in ListRequests : ListOn(q, store).rows = store

\* A table with a record that an update has changed, on which a create that
\* is given the id of that record is handled.
C21_Witness ==
    \E r \in store, q \in CreateRequests :
        /\ r.Status # StatusPending
        /\ q.id = r.ID /\ ~q.fault
        /\ CreateOn(q, store).calls # <<>>

\* C28: pending is never re-entered: whatever Create and Update requests
\* are handled, in whatever order, a record whose status is completed or
\* failed does not have the status pending afterwards.
C28_PendingIsNeverReentered ==
    [][\A r \in store :
          r.Status \in {StatusCompleted, StatusFailed}
          => \A k \in store' : k.ID = r.ID => k.Status # StatusPending]_vars

\* A record that has left pending next to one that has not: later updates
\* and creates act on both.
C28_Witness ==
    /\ \E r \in store : r.Status \in {StatusCompleted, StatusFailed}
    /\ \E r \in store : r.Status = StatusPending
    /\ \E q \in UpdateRequests :
          /\ ~q.fault
          /\ \E r \in store : r.ID = q.id /\ r.Status = StatusFailed
          /\ DecodeField(q.b.status, "") = StatusPending
          /\ UpdateOn(q, store).rows = store

(***************************************************************************)
(* Claims about a client paging through the list (SpecPaging).              *)
(***************************************************************************)
\* How often the client has received the id.
TimesReceived(id) ==
    Cardinality({i \in DOMAIN client.received : client.received[i] = id})

\* C30 as claimed: a client that reads pages 1, 2, 3, ... of a fixed
\* page_size up to an empty page, with creates of other clients in between,
\* has received every record that existed before its first request exactly
\* once.
C30_EarlierRecordsReceivedExactlyOnce ==
    client.done => \A id \in client.before : TimesReceived(id) = 1

\* C30, amended: such a client has received every record that existed
\* before its first request at least once; none is missing.
C30_EarlierRecordsReceivedAtLeastOnce ==
    client.done => \A id \in client.before : TimesReceived(id) >= 1

\* The client has finished, a record was created while it was reading, and
\* a record that existed before is among what it received.
C30_Witness ==
    /\ client.done
    /\ client.before # {}
    /\ \E r \in store : r.ID \notin client.before
    /\ \A id \in client.before : TimesReceived(id) >= 1

C3_ErrorNamesExactlyViolatedRules ==
    outcome.ran
    => /\ (outcome.errors = <<>>) <=> ~AnyRuleViolated(candidate)
       /\ \A n \in 1..6 :
             RuleNamed(n, outcome.errors) <=> ~RuleHolds(n, candidate)

\* C5: the amount rules accept exactly the amounts with
\* 0 < amount <= 99,999,999.99.
C5_AmountRulesAcceptExactlyRange ==
    outcome.ran
    => /\ (~RuleNamed(1, outcome.errors) /\ ~RuleNamed(2, outcome.errors))
          <=> (AmountPositive(candidate.Amount) /\ AmountWithinMax(candidate.Amount))
       /\ candidate.Amount = Dec(99999999, 99, 0)
          => ~RuleNamed(1, outcome.errors) /\ ~RuleNamed(2, outcome.errors)
       /\ candidate.Amount = Dec(100000000, 0, 0)
          => RuleNamed(2, outcome.errors)
       /\ (candidate.Amount = ZeroAmount \/ candidate.Amount.units < 0)
          => RuleNamed(1, outcome.errors)

\* The largest accepted amount, validated and not complained about.
C5_Witness ==
    /\ outcome.ran
    /\ candidate.Amount = Dec(99999999, 99, 0)
    /\ ~RuleNamed(1, outcome.errors)
    /\ ~RuleNamed(2, outcome.errors)

\* C6 as claimed: a code is accepted iff it has exactly three letters and
\* its upper-cased form is in the allow-list; 2- and 4-letter codes are
\* rejected.
C6_AcceptsThreeLettersInList ==
    outcome.ran
    => /\ ~RuleNamed(3, outcome.errors) <=> ThreeLettersInList(candidate.Currency)
       /\ RuneCount(candidate.Currency) \in {2, 4} => RuleNamed(3, outcome.errors)

\* C6, amended: a code is accepted iff it is three bytes long and its
\* upper-cased form is in the allow-list, that is, iff it is three ASCII
\* letters spelling an allow-list code in any mix of cases; 2- and 4-letter
\* codes are rejected, and so is a three-letter code with a letter outside
\* ASCII, whatever its upper-cased form.
C6_AcceptsThreeAsciiLettersInList ==
    outcome.ran
    => /\ ~RuleNamed(3, outcome.errors) <=> SpellsAllowedCode(candidate.Currency)
       /\ ~RuleNamed(3, outcome.errors)
          <=> (len(candidate.Currency) = 3
               /\ ToUpper(candidate.Currency) \in validCurrencies)
       /\ RuneCount(candidate.Currency) \in {2, 4} => RuleNamed(3, outcome.errors)
       /\ (\E i \in DOMAIN candidate.Currency :
              Utf8Len(candidate.Currency[i]) > 1)
          => RuleNamed(3, outcome.errors)

\* A code in mixed case, validated and accepted.
C6_Witness ==
    /\ outcome.ran
    /\ candidate.Currency = <<"U", "s", "D">>
    /\ ~RuleNamed(3, outcome.errors)

\* C25: the sender rule, and likewise the receiver rule, accepts a value
\* iff it has 1 to 255 characters, whatever characters it is made of.
C25_PartyRulesCountCharacters ==
    outcome.ran
    => /\ ~RuleNamed(4, outcome.errors)
          <=> (RuneCount(candidate.Sender) >= 1
               /\ RuneCount(candidate.Sender) <= MaxPartyLen)
       /\ ~RuleNamed(5, outcome.errors)
          <=> (RuneCount(candidate.Receiver) >= 1
               /\ RuneCount(candidate.Receiver) <= MaxPartyLen)

====
